---- MODULE Spec2Model ----
(***************************************************************************)
(* State-machine model of backend/main.py: the upload handler, the         *)
(* background orchestration task process_pdf_background, the per-segment   *)
(* synthesis call, and the status / audio endpoints, all running on one    *)
(* cooperative event loop.  A task holds the loop (running = j) from the   *)
(* moment it is resumed until it suspends in a synthesis call or ends;     *)
(* handlers run only while the loop is idle (running = 0).                 *)
(*                                                                         *)
(* A PDF is a sequence of pages; a page is the sequence of the lengths of  *)
(* its trimmed, non-empty paragraphs.  The orchestration never reads the   *)
(* text of a segment, so a segment carries its page number and the         *)
(* document's page count only.                                             *)
(*                                                                         *)
(* Spec is the whole service with the requests of clients; SpecJobs is     *)
(* the concurrent execution of several jobs; SpecSynthesis adds the ad-hoc *)
(* synthesis requests and documents of several pages; SpecFair is the      *)
(* execution of several jobs under fair scheduling.  SpecSegmenter,        *)
(* SpecDetector and SpecCleaner apply the three text functions, computed   *)
(* on strings, to bounded families of texts.                               *)
(***************************************************************************)
EXTENDS Integers, Sequences, FiniteSets, TLC

\* ---------------------------------------------------------------- bounds
MaxJobs  == 2
MaxWatched == 1
MaxSegs  == 2
MaxPages == 1
MaxPars  == 2
MaxNeg   == 1
MaxAdhoc == 1
MaxPieces == 4
MaxApplied == 2

\* ------------------------------------------------------ program constants
LengthFloor      == 50
ProgressExtract  == 20
ProgressAnalyze  == 40
ProgressGenerate == 60
ProgressSpan     == 30
ProgressFinal    == 100

JobIds == 1..MaxJobs
None   == "None"

\* ------------------------------------------------------------ data model
ProcessingStatus(stage, progress, message) ==
    [stage |-> stage, progress |-> progress, message |-> message]

TextSegment(page) == [page |-> page]

ProcessingResult(job_id, segs, total_pages, status) ==
    [job_id |-> job_id, segments |-> segs, total_pages |-> total_pages,
     status |-> status]

IsResult(e) == "job_id" \in DOMAIN e
IsStatus(e) == "stage" \in DOMAIN e

\* dict[key] = value
Put(d, k, v) == [x \in (DOMAIN d) \cup {k} |-> IF x = k THEN v ELSE d[x]]

\* ------------------------------------------------------- PDF segmenter
ParLens  == {LengthFloor, LengthFloor + 1}
SeqsUpTo(S, n) == UNION {[1..m -> S] : m \in 0..n}
PageTexts == SeqsUpTo(ParLens, MaxPars)
Pdfs      == SeqsUpTo(PageTexts, MaxPages)

RECURSIVE PageSegments(_, _, _)
PageSegments(paragraphs, page_num, total) ==
    IF paragraphs = <<>> THEN <<>>
    ELSE LET rest == PageSegments(Tail(paragraphs), page_num, total)
         IN  IF Head(paragraphs) > LengthFloor
             THEN <<[page |-> page_num, total_pages |-> total]>> \o rest
             ELSE rest

RECURSIVE ExtractFrom(_, _)
ExtractFrom(pdf, page_num) ==
    IF page_num > Len(pdf) THEN <<>>
    ELSE PageSegments(pdf[page_num], page_num, Len(pdf))
             \o ExtractFrom(pdf, page_num + 1)

extract_text_from_pdf(pdf) == ExtractFrom(pdf, 1)

JobPdfs == {pdf \in Pdfs : Len(extract_text_from_pdf(pdf)) <= MaxSegs}

\* the documents of at most one page
SinglePagePdfs == {pdf \in JobPdfs : Len(pdf) <= 1}

\* the documents of at most one page of at most one paragraph
BriefPdfs == SeqsUpTo(SeqsUpTo(ParLens, 1), 1)

\* the documents of at most one paragraph a page and MaxSegs segments, on
\* up to MaxSegs + 1 pages
PagedPdfs ==
    {pdf \in SeqsUpTo(SeqsUpTo(ParLens, 1), MaxSegs + 1) :
        Len(extract_text_from_pdf(pdf)) <= MaxSegs}

\* ---------------------------------------------------- segment processor
\* variant: a processed segment numbered by its position
process_text_segments_by_position(segs) ==
    [k \in 1..Len(segs) |-> TextSegment(k)]

process_text_segments(segs) ==
    [k \in 1..Len(segs) |-> TextSegment(segs[k].page)]

\* ------------------------------------------------------ file names
Pad4(i) ==
    IF i < 10 THEN "000" \o ToString(i)
    ELSE IF i < 100 THEN "00" \o ToString(i)
    ELSE IF i < 1000 THEN "0" \o ToString(i)
    ELSE ToString(i)

\* os.path.join(output_dir, f"segment_{segment_index:04d}.wav"); the
\* directory is the fresh mkdtemp() directory of the job.
OutputFile(j, i) == [dir |-> j, name |-> "segment_" \o Pad4(i) \o ".wav"]

\* ------------------------------------------------------ upload validation
PdfSuffix == <<".", "p", "d", "f">>
Filenames == { <<"a", ".", "p", "d", "f">>,
               <<"a", ".", "t", "x", "t">>,
               <<"p", "d", "f">> }

endswith(s, suffix) ==
    /\ Len(s) >= Len(suffix)
    /\ SubSeq(s, Len(s) - Len(suffix) + 1, Len(s)) = suffix

\* ------------------------------------------------------ status values
StatusUploading  == ProcessingStatus("Uploading file...", 0, None)
StatusExtracting ==
    ProcessingStatus("Extracting text from PDF...", ProgressExtract, None)
StatusAnalyzing  ==
    ProcessingStatus("Analyzing content for voice processing...",
                     ProgressAnalyze, None)
\* variant: the stage 3 progress mistyped
StatusGeneratingTypo ==
    ProcessingStatus("Generating AI voice...", 6, None)

StatusGenerating ==
    ProcessingStatus("Generating AI voice...", ProgressGenerate, None)
StatusFinalizing == ProcessingStatus("Finalizing...", ProgressFinal, None)

\* int(60 + (30 * (i + 1) / total_segments)), i zero-based, total >= 1
SegmentProgress(i, total) ==
    (ProgressGenerate * total + ProgressSpan * (i + 1)) \div total

StatusSegment(i, total) ==
    ProcessingStatus("Generating audio segment " \o ToString(i + 1) \o "/"
                         \o ToString(total) \o "...",
                     SegmentProgress(i, total), None)

\* variant: the failure status without its message
StatusFailedNoMessage(e) == ProcessingStatus("Error: " \o e, 0, None)

StatusFailed(e) == ProcessingStatus("Error: " \o e, 0, e)

TotalPages(segs) == IF segs # <<>> THEN segs[1].total_pages ELSE 0

\* list[k] with Python's negative indexing; "IndexError" when out of range
PyInRange(list, k) == -Len(list) <= k /\ k < Len(list)
PyIndex(list, k)   == IF k >= 0 THEN list[k + 1] ELSE list[Len(list) + k + 1]

\* ------------------------------------------------------------- state
VARIABLES
    tts_model,        \* TRUE iff the lifespan start-up loaded a TTS model
    processing_jobs,  \* dict job_id -> ProcessingStatus | ProcessingResult
    audio_files,      \* dict job_id -> list of output files
    pc,               \* per job: position of its handler / task
    segments,         \* per job: local `segments`
    processed_segments, \* per job: local `processed_segments`
    idx,              \* per job: loop variable i
    err,              \* per job: the exception being handled (str(e))
    running,          \* job whose task holds the event loop, 0 when idle
    inflight,         \* synthesis calls running in executor threads
    disk,             \* output files that exist
    response,         \* the response produced by the last step, if any
    \* history variables (not read by any guard or assignment of the program)
    writes,           \* per job: every value written to processing_jobs[j]
    attempts,         \* per job: segment indices whose synthesis was called
    failed,           \* per job: segment indices whose synthesis raised
    raised,           \* per job: the non-synthesis step that raised
    extracted,        \* per job: <<segments>> once extraction has returned
    accepted          \* job ids minted by an accepted upload

vars == <<tts_model, processing_jobs, audio_files, pc, segments,
          processed_segments, idx, err, running, inflight, disk, response,
          writes, attempts, failed, raised, extracted, accepted>>

locals  == <<segments, processed_segments, idx, err>>
history == <<writes, attempts, failed, raised, extracted, accepted>>

NoResponse == [op |-> "none"]

Init ==
    /\ tts_model \in BOOLEAN
    /\ processing_jobs = <<>>
    /\ audio_files = <<>>
    /\ pc = [j \in JobIds |-> "unused"]
    /\ segments = [j \in JobIds |-> <<>>]
    /\ processed_segments = [j \in JobIds |-> <<>>]
    /\ idx = [j \in JobIds |-> 0]
    /\ err = [j \in JobIds |-> None]
    /\ running = 0
    /\ inflight = {}
    /\ disk = {}
    /\ response = NoResponse
    /\ writes = [j \in JobIds |-> <<>>]
    /\ attempts = [j \in JobIds |-> <<>>]
    /\ failed = [j \in JobIds |-> {}]
    /\ raised = [j \in JobIds |-> None]
    /\ extracted = [j \in JobIds |-> <<>>]
    /\ accepted = {}

\* processing_jobs[j] = v, with the write recorded in the history
WriteJob(j, v) ==
    /\ processing_jobs' = Put(processing_jobs, j, v)
    /\ writes' = [writes EXCEPT ![j] = Append(@, v)]

\* variant: an identifier that is not unique
uuid4Fixed(used) == 1

\* str(uuid.uuid4()): an identifier no earlier upload has received
uuid4(used) == CHOOSE j \in JobIds : j \notin used /\ \A k \in JobIds \ used : j <= k

Used == {j \in JobIds : pc[j] # "unused"}

ErrorText(step) == step \o " failed"

\* variant: the identifier is not registered before the handler suspends
UploadUnregistered(filename, limit) ==
    /\ running = 0
    /\ IF ~endswith(filename, PdfSuffix)
       THEN /\ response' = [op |-> "upload", code |-> 400]
            /\ UNCHANGED <<tts_model, processing_jobs, audio_files, pc,
                           locals, running, inflight, disk, history>>
       ELSE /\ Cardinality(Used) < limit
            /\ LET job_id == uuid4(Used) IN
               /\ accepted' = accepted \cup {job_id}
               /\ \/ /\ pc' = [pc EXCEPT ![job_id] = "reading"]
                     /\ response' = NoResponse
                  \/ /\ pc' = [pc EXCEPT ![job_id] = "abandoned"]
                     /\ response' = [op |-> "upload", code |-> 500]
            /\ UNCHANGED <<tts_model, processing_jobs, audio_files, locals,
                           running, inflight, disk, writes, attempts, failed,
                           raised, extracted>>

\* ------------------------------------------------- POST /api/process-pdf
\* variant: the identifier is minted and registered before the file name
\* is looked at
UploadValidatesLate(filename, limit) ==
    /\ running = 0
    /\ Cardinality(Used) < limit
    /\ LET job_id == uuid4(Used) IN
       /\ WriteJob(job_id, StatusUploading)
       /\ accepted' = accepted \cup {job_id}
       /\ IF ~endswith(filename, PdfSuffix)
          THEN /\ pc' = [pc EXCEPT ![job_id] = "abandoned"]
               /\ response' = [op |-> "upload", code |-> 400]
          ELSE \/ /\ pc' = [pc EXCEPT ![job_id] = "reading"]
                  /\ response' = NoResponse
               \/ /\ pc' = [pc EXCEPT ![job_id] = "abandoned"]
                  /\ response' = [op |-> "upload", code |-> 500]
    /\ UNCHANGED <<tts_model, audio_files, locals, running, inflight,
                   disk, attempts, failed, raised, extracted>>

\* process_pdf up to its first suspension (await file.read()); at most
\* `limit` uploads are accepted in a behaviour.
Upload(filename, limit) ==
    /\ running = 0
    /\ IF ~endswith(filename, PdfSuffix)
       THEN /\ response' = [op |-> "upload", code |-> 400]
            /\ UNCHANGED <<tts_model, processing_jobs, audio_files, pc,
                           locals, running, inflight, disk, history>>
       ELSE /\ Cardinality(Used) < limit
            /\ LET job_id == uuid4(Used) IN
               /\ WriteJob(job_id, StatusUploading)
               /\ accepted' = accepted \cup {job_id}
               /\ \/ /\ pc' = [pc EXCEPT ![job_id] = "reading"]
                     /\ response' = NoResponse
                  \/ \* tempfile.mkdtemp() or open() raises
                     /\ pc' = [pc EXCEPT ![job_id] = "abandoned"]
                     /\ response' = [op |-> "upload", code |-> 500]
            /\ UNCHANGED <<tts_model, audio_files, locals, running, inflight,
                           disk, attempts, failed, raised, extracted>>

\* process_pdf from the return of file.read() to the end of the handler.
UploadFinish(j) ==
    /\ running = 0
    /\ pc[j] = "reading"
    /\ \/ /\ pc' = [pc EXCEPT ![j] = "queued"]
          /\ response' = [op |-> "upload", code |-> 200, job_id |-> j]
       \/ \* file.read() or buffer.write() raises
          /\ pc' = [pc EXCEPT ![j] = "abandoned"]
          /\ response' = [op |-> "upload", code |-> 500]
    /\ UNCHANGED <<tts_model, processing_jobs, audio_files, locals, running,
                   inflight, disk, history>>

\* ------------------------------------------------ process_pdf_background
\* A step of the task that returns normally and goes on to `next`.
Goto(j, next) ==
    /\ pc' = [pc EXCEPT ![j] = next]
    /\ response' = NoResponse

\* A step outside the per-segment try raises: control goes to the outer
\* except clause.
Raise(j, step) ==
    /\ pc' = [pc EXCEPT ![j] = "except"]
    /\ err' = [err EXCEPT ![j] = ErrorText(step)]
    /\ raised' = [raised EXCEPT ![j] = step]
    /\ response' = NoResponse

\* The task function returns: its locals are gone and the event loop is
\* free again.
Return(j) ==
    /\ Goto(j, "done")
    /\ running' = 0
    /\ segments' = [segments EXCEPT ![j] = <<>>]
    /\ processed_segments' = [processed_segments EXCEPT ![j] = <<>>]
    /\ idx' = [idx EXCEPT ![j] = 0]
    /\ err' = [err EXCEPT ![j] = None]

\* the event loop starts the background task: stage 1 status
TaskStart(j) ==
    /\ running = 0
    /\ pc[j] = "queued"
    /\ running' = j
    /\ WriteJob(j, StatusExtracting)
    /\ Goto(j, "extract")
    /\ UNCHANGED <<tts_model, audio_files, locals, inflight, disk,
                   attempts, failed, raised, extracted, accepted>>

\* segments = extract_text_from_pdf(pdf_path), the uploaded file being one
\* of `pdfs`
Extract(j, pdfs) ==
    /\ running = j
    /\ pc[j] = "extract"
    /\ \/ \E pdf \in pdfs :
            /\ segments' = [segments EXCEPT ![j] = extract_text_from_pdf(pdf)]
            /\ extracted' =
                 [extracted EXCEPT ![j] = <<extract_text_from_pdf(pdf)>>]
            /\ Goto(j, "analyzing")
            /\ UNCHANGED <<err, raised>>
       \/ /\ Raise(j, "extract")
          /\ UNCHANGED <<segments, extracted>>
    /\ UNCHANGED <<tts_model, processing_jobs, audio_files,
                   processed_segments, idx, running, inflight, disk,
                   writes, attempts, failed, accepted>>

\* stage 2 status
Analyzing(j) ==
    /\ running = j
    /\ pc[j] = "analyzing"
    /\ WriteJob(j, StatusAnalyzing)
    /\ Goto(j, "process")
    /\ UNCHANGED <<tts_model, audio_files, locals, running, inflight, disk,
                   attempts, failed, raised, extracted, accepted>>

\* processed_segments = process_text_segments(segments)
Process(j) ==
    /\ running = j
    /\ pc[j] = "process"
    /\ \/ /\ processed_segments' =
                [processed_segments EXCEPT
                    ![j] = process_text_segments(segments[j])]
          /\ Goto(j, "generating")
          /\ UNCHANGED <<err, raised>>
       \/ /\ Raise(j, "process")
          /\ UNCHANGED processed_segments
    /\ UNCHANGED <<tts_model, processing_jobs, audio_files, segments, idx,
                   running, inflight, disk, writes, attempts, failed,
                   extracted, accepted>>

\* stage 3 status
Generating(j) ==
    /\ running = j
    /\ pc[j] = "generating"
    /\ WriteJob(j, StatusGenerating)
    /\ Goto(j, "mkdtemp")
    /\ UNCHANGED <<tts_model, audio_files, locals, running, inflight, disk,
                   attempts, failed, raised, extracted, accepted>>

\* audio_dir = tempfile.mkdtemp(); audio_files[job_id] = []
MakeAudioDir(j) ==
    /\ running = j
    /\ pc[j] = "mkdtemp"
    /\ \/ /\ audio_files' = Put(audio_files, j, <<>>)
          /\ idx' = [idx EXCEPT ![j] = 0]
          /\ Goto(j, "loop")
          /\ UNCHANGED <<err, raised>>
       \/ /\ Raise(j, "mkdtemp")
          /\ UNCHANGED <<audio_files, idx>>
    /\ UNCHANGED <<tts_model, processing_jobs, segments, processed_segments,
                   running, inflight, disk, writes, attempts, failed,
                   extracted, accepted>>

\* variant: the loop bound is off by one
LoopOffByOne(j) ==
    /\ running = j
    /\ pc[j] = "loop"
    /\ IF idx[j] <= Len(processed_segments[j])
       THEN Goto(j, "call")
       ELSE Goto(j, "finalizing")
    /\ UNCHANGED <<tts_model, processing_jobs, audio_files, locals, running,
                   inflight, disk, history>>

\* for i, segment in enumerate(processed_segments)
Loop(j) ==
    /\ running = j
    /\ pc[j] = "loop"
    /\ IF idx[j] < Len(processed_segments[j])
       THEN Goto(j, "call")
       ELSE Goto(j, "finalizing")
    /\ UNCHANGED <<tts_model, processing_jobs, audio_files, locals, running,
                   inflight, disk, history>>

\* variant: the synthesis is started but not awaited
CallNotAwaited(j) ==
    /\ running = j
    /\ pc[j] = "call"
    /\ attempts' = [attempts EXCEPT ![j] = Append(@, idx[j])]
    /\ IF ~tts_model
       THEN /\ Goto(j, "skip")
            /\ failed' = [failed EXCEPT ![j] = @ \cup {idx[j]}]
            /\ UNCHANGED <<inflight, idx>>
       ELSE /\ inflight' = inflight \cup {[job |-> j, index |-> idx[j]]}
            /\ idx' = [idx EXCEPT ![j] = @ + 1]
            /\ Goto(j, "loop")
            /\ UNCHANGED failed
    /\ UNCHANGED <<tts_model, processing_jobs, audio_files, segments,
                   processed_segments, err, running, disk, writes, raised,
                   extracted, accepted>>

\* variant: the availability of the model is not tested
CallUnchecked(j) ==
    /\ running = j
    /\ pc[j] = "call"
    /\ attempts' = [attempts EXCEPT ![j] = Append(@, idx[j])]
    /\ inflight' = inflight \cup {[job |-> j, index |-> idx[j]]}
    /\ running' = 0
    /\ Goto(j, "await")
    /\ UNCHANGED <<tts_model, processing_jobs, audio_files, locals, disk,
                   writes, failed, raised, extracted, accepted>>

\* audio_file = await generate_audio_for_segment(segment, audio_dir, i):
\* with no model the call raises before suspending; otherwise tts_to_file is
\* handed to an executor thread and the task suspends.
Call(j) ==
    /\ running = j
    /\ pc[j] = "call"
    /\ attempts' = [attempts EXCEPT ![j] = Append(@, idx[j])]
    /\ IF ~tts_model
       THEN /\ Goto(j, "skip")
            /\ failed' = [failed EXCEPT ![j] = @ \cup {idx[j]}]
            /\ UNCHANGED <<running, inflight>>
       ELSE /\ inflight' = inflight \cup {[job |-> j, index |-> idx[j]]}
            /\ running' = 0
            /\ Goto(j, "await")
            /\ UNCHANGED failed
    /\ UNCHANGED <<tts_model, processing_jobs, audio_files, locals, disk,
                   writes, raised, extracted, accepted>>

\* the executor call of job j ends and the task is resumed: tts_to_file
\* wrote the file and returned, or raised
SynthReturn(j) ==
    /\ running = 0
    /\ pc[j] = "await"
    /\ running' = j
    /\ inflight' = inflight \ {[job |-> j, index |-> idx[j]]}
    /\ \/ /\ disk' = disk \cup {OutputFile(j, idx[j])}
          /\ Goto(j, "append")
          /\ UNCHANGED failed
       \/ /\ Goto(j, "skip")
          /\ failed' = [failed EXCEPT ![j] = @ \cup {idx[j]}]
          /\ UNCHANGED disk
    /\ UNCHANGED <<tts_model, processing_jobs, audio_files, locals,
                   writes, attempts, raised, extracted, accepted>>

\* variant: the task yields the event loop after the append
AppendAudioYields(j) ==
    /\ running = j
    /\ pc[j] = "append"
    /\ audio_files' = [audio_files EXCEPT
                          ![j] = Append(@, OutputFile(j, idx[j]))]
    /\ running' = 0
    /\ Goto(j, "progress")
    /\ UNCHANGED <<tts_model, processing_jobs, locals, inflight, disk,
                   history>>

\* audio_files[job_id].append(audio_file)
AppendAudio(j) ==
    /\ running = j
    /\ pc[j] = "append"
    /\ audio_files' = [audio_files EXCEPT
                          ![j] = Append(@, OutputFile(j, idx[j]))]
    /\ Goto(j, "progress")
    /\ UNCHANGED <<tts_model, processing_jobs, locals, running, inflight,
                   disk, history>>

\* progress = 60 + (30 * (i + 1) / total_segments); the per-segment status
\* is written and the loop goes on.  A zero total raises ZeroDivisionError
\* inside the per-segment try.
UpdateProgress(j) ==
    /\ running = j
    /\ pc[j] = "progress"
    /\ LET total_segments == Len(processed_segments[j]) IN
       IF total_segments = 0
       THEN /\ Goto(j, "skip")
            /\ UNCHANGED <<processing_jobs, writes, idx>>
       ELSE /\ WriteJob(j, StatusSegment(idx[j], total_segments))
            /\ idx' = [idx EXCEPT ![j] = @ + 1]
            /\ Goto(j, "loop")
    /\ UNCHANGED <<tts_model, audio_files, segments, processed_segments, err,
                   running, inflight, disk, attempts, failed, raised,
                   extracted, accepted>>

\* variant: a failed segment leaves a placeholder in the audio list
SkipPlaceholder(j) ==
    /\ running = j
    /\ pc[j] = "skip"
    /\ idx' = [idx EXCEPT ![j] = @ + 1]
    /\ audio_files' = [audio_files EXCEPT
                          ![j] = Append(@, [dir |-> j, name |-> ""])]
    /\ Goto(j, "loop")
    /\ UNCHANGED <<tts_model, processing_jobs, segments, processed_segments,
                   err, running, inflight, disk, history>>

\* except Exception as e: print(...); continue
Skip(j) ==
    /\ running = j
    /\ pc[j] = "skip"
    /\ idx' = [idx EXCEPT ![j] = @ + 1]
    /\ Goto(j, "loop")
    /\ UNCHANGED <<tts_model, processing_jobs, audio_files, segments,
                   processed_segments, err, running, inflight, disk,
                   history>>

\* stage 4 status
Finalizing(j) ==
    /\ running = j
    /\ pc[j] = "finalizing"
    /\ WriteJob(j, StatusFinalizing)
    /\ Goto(j, "result")
    /\ UNCHANGED <<tts_model, audio_files, locals, running, inflight, disk,
                   attempts, failed, raised, extracted, accepted>>

\* processing_jobs[job_id] = ProcessingResult(...); the task ends
StoreResult(j) ==
    /\ running = j
    /\ pc[j] = "result"
    /\ \/ /\ WriteJob(j, ProcessingResult(j, processed_segments[j],
                                          TotalPages(segments[j]),
                                          "completed"))
          /\ Return(j)
          /\ UNCHANGED raised
       \/ /\ Raise(j, "result")
          /\ UNCHANGED <<processing_jobs, writes, running, segments,
                         processed_segments, idx>>
    /\ UNCHANGED <<tts_model, audio_files, inflight, disk, attempts, failed,
                   extracted, accepted>>

\* variant: the failure status is written to every entry of the registry
ExceptAll(j) ==
    /\ running = j
    /\ pc[j] = "except"
    /\ processing_jobs' =
         [k \in (DOMAIN processing_jobs) \cup {j} |-> StatusFailed(err[j])]
    /\ writes' = [writes EXCEPT ![j] = Append(@, StatusFailed(err[j]))]
    /\ Return(j)
    /\ UNCHANGED <<tts_model, audio_files, inflight, disk, attempts, failed,
                   raised, extracted, accepted>>

\* variant: the task ends on an exception without recording it
ExceptSilent(j) ==
    /\ running = j
    /\ pc[j] = "except"
    /\ Return(j)
    /\ UNCHANGED <<tts_model, processing_jobs, audio_files, inflight, disk,
                   history>>

\* except Exception as e: processing_jobs[job_id] = ProcessingStatus(
\*     stage=f"Error: {str(e)}", progress=0, message=str(e)); the task ends
Except(j) ==
    /\ running = j
    /\ pc[j] = "except"
    /\ WriteJob(j, StatusFailed(err[j]))
    /\ Return(j)
    /\ UNCHANGED <<tts_model, audio_files, inflight, disk, attempts, failed,
                   raised, extracted, accepted>>

\* --------------------------------------------- GET /api/status/{job_id}
\* variant: the poll is served while a task holds the event loop
get_processing_status_preempting(job_id) ==
    /\ response' =
         IF job_id \notin DOMAIN processing_jobs
         THEN [op |-> "status", job_id |-> job_id, code |-> 404]
         ELSE [op |-> "status", job_id |-> job_id, code |-> 200,
               body |-> processing_jobs[job_id]]
    /\ UNCHANGED <<tts_model, processing_jobs, audio_files, pc, locals,
                   running, inflight, disk, history>>

get_processing_status(job_id) ==
    /\ running = 0
    /\ response' =
         IF job_id \notin DOMAIN processing_jobs
         THEN [op |-> "status", job_id |-> job_id, code |-> 404]
         ELSE [op |-> "status", job_id |-> job_id, code |-> 200,
               body |-> processing_jobs[job_id]]
    /\ UNCHANGED <<tts_model, processing_jobs, audio_files, pc, locals,
                   running, inflight, disk, history>>

\* ------------------------------ GET /api/audio/{job_id}/{segment_index}
get_audio_segment(job_id, segment_index) ==
    /\ running = 0
    /\ response' =
         LET base == [op |-> "audio", job_id |-> job_id,
                      segment_index |-> segment_index]
         IN  IF job_id \notin DOMAIN audio_files
             THEN base @@ [code |-> 404]
             ELSE IF segment_index >= Len(audio_files[job_id])
             THEN base @@ [code |-> 404]
             ELSE IF ~PyInRange(audio_files[job_id], segment_index)
             THEN base @@ [code |-> 500]     \* uncaught IndexError
             ELSE LET audio_file ==
                          PyIndex(audio_files[job_id], segment_index)
                  IN  IF audio_file \notin disk
                      THEN base @@ [code |-> 404]
                      ELSE base @@ [code |-> 200, file |-> audio_file]
    /\ UNCHANGED <<tts_model, processing_jobs, audio_files, pc, locals,
                   running, inflight, disk, history>>

\* ------------------------------------------------------------ strings
\* Texts are strings; Char(s, i) is the one-character string at position i.
Char(s, i) == SubSeq(s, i, i)
From(s, i) == SubSeq(s, i, Len(s))

Whitespace == {" ", "\n", "\t"}
Digits     == {"0", "1", "2", "3", "4", "5", "6", "7", "8", "9"}
UpperCase  == "ABCDEFGHIJKLMNOPQRSTUVWXYZ"
LowerCase  == "abcdefghijklmnopqrstuvwxyz"
Capitals   == {Char(UpperCase, k) : k \in 1..Len(UpperCase)}

RECURSIVE Run(_, _)
Run(c, n) == IF n = 0 THEN "" ELSE c \o Run(c, n - 1)

RECURSIVE lstrip(_)
lstrip(s) ==
    IF s # "" /\ Char(s, 1) \in Whitespace THEN lstrip(From(s, 2)) ELSE s

RECURSIVE rstrip(_)
rstrip(s) ==
    IF s # "" /\ Char(s, Len(s)) \in Whitespace
    THEN rstrip(SubSeq(s, 1, Len(s) - 1))
    ELSE s

\* str.strip()
strip(s) == rstrip(lstrip(s))

\* str.find(sep) + 1: the first position where sep occurs, 0 if none
find(s, sep) ==
    LET hits == {p \in 1..(Len(s) - Len(sep) + 1) :
                    SubSeq(s, p, p + Len(sep) - 1) = sep}
    IN  IF hits = {} THEN 0
        ELSE CHOOSE p \in hits : \A q \in hits : p <= q

\* str.split(sep)
RECURSIVE split(_, _)
split(s, sep) ==
    LET p == find(s, sep)
    IN  IF p = 0 THEN <<s>>
        ELSE <<SubSeq(s, 1, p - 1)>> \o split(From(s, p + Len(sep)), sep)

\* str.replace(old, new)
RECURSIVE replace(_, _, _)
replace(s, old, new) ==
    LET p == find(s, old)
    IN  IF p = 0 THEN s
        ELSE SubSeq(s, 1, p - 1) \o new
                 \o replace(From(s, p + Len(old)), old, new)

\* ------------------------------------------- PDF segmenter, on the text
\* A document is the sequence of the texts page.extract_text() returns.
ParagraphBreak == "\n\n"

\* [p.strip() for p in text.split("\n\n") if p.strip()]
Paragraphs(text) ==
    LET parts == split(text, ParagraphBreak)
    IN  SelectSeq([k \in 1..Len(parts) |-> strip(parts[k])],
                  LAMBDA p : p # "")

\* variant: the length floor itself passes the filter
LongEnoughInclusive(paragraph) == Len(paragraph) >= LengthFloor

\* len(paragraph) > 50
LongEnough(paragraph) == Len(paragraph) > LengthFloor

\* the segments one page adds
PageTextSegments(text, page_num, total) ==
    IF text # "" /\ strip(text) # ""
    THEN LET kept == SelectSeq(Paragraphs(text), LongEnough)
         IN  [k \in 1..Len(kept) |->
                 [text |-> kept[k], page |-> page_num, total_pages |-> total]]
    ELSE <<>>

RECURSIVE ExtractTextFrom(_, _)
ExtractTextFrom(pages, page_num) ==
    IF page_num > Len(pages) THEN <<>>
    ELSE PageTextSegments(pages[page_num], page_num, Len(pages))
             \o ExtractTextFrom(pages, page_num + 1)

\* extract_text_from_pdf on page texts
extract_text_segments(pages) == ExtractTextFrom(pages, 1)

\* Page texts: up to MaxPieces pieces, each a run of LengthFloor or
\* LengthFloor + 1 letters, a blank or a line break.
RECURSIVE Joined(_)
Joined(pieces) ==
    IF pieces = <<>> THEN "" ELSE Head(pieces) \o Joined(Tail(pieces))

TextsOf(pieces, n) == {Joined(w) : w \in SeqsUpTo(pieces, n)}

PagePieces == {Run("x", LengthFloor), Run("x", LengthFloor + 1), " ", "\n"}
PageStrings == TextsOf(PagePieces, MaxPieces)
BlankPages == {"", " ", "\n\n"}

\* the documents of one page, and those of two pages one of which is blank
TextPdfs ==
    {<<t>> : t \in PageStrings}
        \cup {<<b, t>> : b \in BlankPages, t \in PageStrings}
        \cup {<<t, b>> : b \in BlankPages, t \in PageStrings}

\* The state of a specification of a text function: no job, and in
\* `response` the argument of the call, then the argument and the value
\* returned.
TextInit(calls) ==
    /\ tts_model \in BOOLEAN
    /\ processing_jobs = <<>>
    /\ audio_files = <<>>
    /\ pc = [j \in JobIds |-> "unused"]
    /\ segments = [j \in JobIds |-> <<>>]
    /\ processed_segments = [j \in JobIds |-> <<>>]
    /\ idx = [j \in JobIds |-> 0]
    /\ err = [j \in JobIds |-> None]
    /\ running = 0
    /\ inflight = {}
    /\ disk = {}
    /\ response \in calls
    /\ writes = [j \in JobIds |-> <<>>]
    /\ attempts = [j \in JobIds |-> <<>>]
    /\ failed = [j \in JobIds |-> {}]
    /\ raised = [j \in JobIds |-> None]
    /\ extracted = [j \in JobIds |-> <<>>]
    /\ accepted = {}

TextUnchanged ==
    UNCHANGED <<tts_model, processing_jobs, audio_files, pc, locals,
                running, inflight, disk, history>>

InitSegmenter == TextInit({[op |-> "pdf", pages |-> d] : d \in TextPdfs})

\* segments = extract_text_from_pdf(pdf_path)
ExtractText ==
    /\ response.op = "pdf"
    /\ response' = [op |-> "extract_text_from_pdf",
                    pages |-> response.pages,
                    segments |-> extract_text_segments(response.pages)]
    /\ TextUnchanged

SpecSegmenter == InitSegmenter /\ [][ExtractText]_vars

\* ------------------------------------------- figure-reference detector
Lower(c) ==
    IF c \in Capitals
    THEN Char(LowerCase, CHOOSE k \in 1..Len(UpperCase) : Char(UpperCase, k) = c)
    ELSE c

\* equality under re.IGNORECASE
EqualsIgnoreCase(s, t) ==
    /\ Len(s) = Len(t)
    /\ \A i \in 1..Len(s) : Lower(Char(s, i)) = Lower(Char(t, i))

\* A pattern is a word, \s+, and then either \d+ or a second word.
Number == "\\d+"
figure_patterns ==
    << [head |-> "figure",      tail |-> Number],
       [head |-> "table",       tail |-> Number],
       [head |-> "chart",       tail |-> Number],
       [head |-> "graph",       tail |-> Number],
       [head |-> "diagram",     tail |-> Number],
       [head |-> "see",         tail |-> "above"],
       [head |-> "see",         tail |-> "below"],
       [head |-> "as",          tail |-> "shown"],
       [head |-> "illustrated", tail |-> "in"] >>

\* the last position of the longest run of characters of class from p on,
\* p - 1 when there is none
RECURSIVE RunEnd(_, _, _)
RunEnd(s, p, class) ==
    IF p <= Len(s) /\ Char(s, p) \in class
    THEN RunEnd(s, p + 1, class)
    ELSE p - 1

\* the last position of the match of pattern that starts at p, 0 if none
MatchEnd(pattern, s, p) ==
    LET a == p + Len(pattern.head)
        w == RunEnd(s, a, Whitespace)
        d == RunEnd(s, w + 1, Digits)
        e == w + Len(pattern.tail)
    IN  IF a - 1 > Len(s) THEN 0
        ELSE IF ~EqualsIgnoreCase(SubSeq(s, p, a - 1), pattern.head) THEN 0
        ELSE IF w < a THEN 0
        ELSE IF pattern.tail = Number THEN (IF d > w THEN d ELSE 0)
        ELSE IF e <= Len(s)
                  /\ EqualsIgnoreCase(SubSeq(s, w + 1, e), pattern.tail)
             THEN e
             ELSE 0

\* re.findall(pattern, text, re.IGNORECASE), scanning from position p
RECURSIVE FindAllFrom(_, _, _)
FindAllFrom(pattern, s, p) ==
    IF p > Len(s) THEN <<>>
    ELSE LET e == MatchEnd(pattern, s, p)
         IN  IF e > 0
             THEN <<SubSeq(s, p, e)>> \o FindAllFrom(pattern, s, e + 1)
             ELSE FindAllFrom(pattern, s, p + 1)

findall(pattern, s) == FindAllFrom(pattern, s, 1)

\* for pattern in figure_patterns: references.extend(matches)
RECURSIVE ExtendFrom(_, _)
ExtendFrom(text, k) ==
    IF k > Len(figure_patterns) THEN <<>>
    ELSE findall(figure_patterns[k], text) \o ExtendFrom(text, k + 1)

\* the matches of any pattern in the order of their positions
RECURSIVE ScanFrom(_, _)
ScanFrom(s, p) ==
    IF p > Len(s) THEN <<>>
    ELSE LET ks == {k \in 1..Len(figure_patterns) :
                       MatchEnd(figure_patterns[k], s, p) > 0}
         IN  IF ks = {} THEN ScanFrom(s, p + 1)
             ELSE LET e == MatchEnd(figure_patterns[CHOOSE k \in ks : TRUE],
                                    s, p)
                  IN  <<SubSeq(s, p, e)>> \o ScanFrom(s, e + 1)

\* variant: the references in the order of the text
detect_in_text_order(text) ==
    LET references == ScanFrom(text, 1)
    IN  [has_figure_reference |-> Len(references) > 0,
         figure_references |-> references]

detect_figure_references(text) ==
    LET references == ExtendFrom(text, 1)
    IN  [has_figure_reference |-> Len(references) > 0,
         figure_references |-> references]

DetectorPieces ==
    {"Table 1", "figure 2", "FIGURE", "3", "see above", " ", "\n"}

InitDetector ==
    TextInit({[op |-> "text", text |-> t] :
                 t \in TextsOf(DetectorPieces, MaxPieces)})

\* ref_info = detect_figure_references(segment["text"])
DetectReferences ==
    /\ response.op = "text"
    /\ response' = [op |-> "detect_figure_references",
                    text |-> response.text,
                    ref_info |-> detect_figure_references(response.text)]
    /\ TextUnchanged

SpecDetector == InitDetector /\ [][DetectReferences]_vars

\* ---------------------------------------------------------- text cleaner
\* re.sub(r"\s+", " ", text)
RECURSIVE CollapseWhitespace(_)
CollapseWhitespace(s) ==
    IF s = "" THEN ""
    ELSE IF Char(s, 1) \in Whitespace
         THEN " " \o CollapseWhitespace(lstrip(s))
         ELSE Char(s, 1) \o CollapseWhitespace(From(s, 2))

\* re.sub(mark + r"([A-Z])", mark + r" \1", text), mark one character
RECURSIVE AddPause(_, _)
AddPause(mark, s) ==
    IF s = "" THEN ""
    ELSE IF Len(s) >= 2 /\ Char(s, 1) = mark /\ Char(s, 2) \in Capitals
         THEN mark \o " " \o Char(s, 2) \o AddPause(mark, From(s, 3))
         ELSE Char(s, 1) \o AddPause(mark, From(s, 2))

abbreviations ==
    << [abbr |-> "et al.", replacement |-> "et al"],
       [abbr |-> "e.g.",   replacement |-> "for example"],
       [abbr |-> "i.e.",   replacement |-> "that is"],
       [abbr |-> "vs.",    replacement |-> "versus"],
       [abbr |-> "etc.",   replacement |-> "et cetera"] >>

\* for abbr, replacement in abbreviations.items(): text = text.replace(...)
RECURSIVE Expand(_, _)
Expand(s, k) ==
    IF k > Len(abbreviations) THEN s
    ELSE Expand(replace(s, abbreviations[k].abbr,
                        abbreviations[k].replacement), k + 1)

clean_text_for_tts(text) ==
    strip(Expand(AddPause(",", AddPause(".", CollapseWhitespace(text))), 1))

CleanerPieces == {"e.g.", "et al.", ".", ",", "g", "A", " ", "\n"}

InitCleaner ==
    TextInit({[op |-> "text", text |-> t, applied |-> 0] :
                 t \in TextsOf(CleanerPieces, MaxPieces)})

\* cleaned_text = clean_text_for_tts(text), on a text or on a cleaned text
CleanText ==
    /\ response.op \in {"text", "clean_text_for_tts"}
    /\ response.applied < MaxApplied
    /\ response' = [op |-> "clean_text_for_tts",
                    text |-> clean_text_for_tts(response.text),
                    applied |-> response.applied + 1]
    /\ TextUnchanged

SpecCleaner == InitCleaner /\ [][CleanText]_vars

\* ------------------------------------------- POST /api/synthesize-text
\* An ad-hoc call in an executor thread is [job |-> 0, index |-> r], r the
\* number of the request.  The text of the request reaches the collaborator
\* only and is not part of the state.
AdhocCalls == {[job |-> 0, index |-> r] : r \in 1..MaxAdhoc}

\* synthesize_text up to its suspension in run_in_executor
synthesize_text ==
    /\ running = 0
    /\ IF ~tts_model
       THEN /\ response' = [op |-> "synthesize", code |-> 500,
                            detail |-> "TTS model not available"]
            /\ UNCHANGED inflight
       ELSE /\ AdhocCalls \ inflight # {}
            /\ inflight' = inflight \cup
                   {CHOOSE c \in AdhocCalls \ inflight :
                       \A d \in AdhocCalls \ inflight : c.index <= d.index}
            /\ response' = NoResponse
    /\ UNCHANGED <<tts_model, processing_jobs, audio_files, pc, locals,
                   running, disk, history>>

\* the executor call of an ad-hoc request ends: the file response, or the
\* HTTPException of the except clause
SynthesizeReturn(c) ==
    /\ running = 0
    /\ c \in inflight
    /\ inflight' = inflight \ {c}
    /\ \/ response' = [op |-> "synthesize", code |-> 200,
                        filename |-> "synthesized_audio.wav"]
       \/ response' = [op |-> "synthesize", code |-> 500,
                        detail |-> "Error generating audio: "
                                      \o ErrorText("tts_to_file")]
    /\ UNCHANGED <<tts_model, processing_jobs, audio_files, pc, locals,
                   running, disk, history>>

\* ----------------------------------------------------------- behaviour
TaskStep(j, pdfs) ==
    \/ TaskStart(j)
    \/ Extract(j, pdfs)
    \/ Analyzing(j)
    \/ Process(j)
    \/ Generating(j)
    \/ MakeAudioDir(j)
    \/ Loop(j)
    \/ Call(j)
    \/ SynthReturn(j)
    \/ AppendAudio(j)
    \/ UpdateProgress(j)
    \/ Skip(j)
    \/ Finalizing(j)
    \/ StoreResult(j)
    \/ Except(j)

\* The service: uploads of at most MaxWatched single-page documents, their
\* tasks, and the status and audio requests of clients.
Next ==
    \/ \E filename \in Filenames : Upload(filename, MaxWatched)
    \/ \E j \in JobIds : UploadFinish(j)
    \/ \E j \in JobIds : TaskStep(j, SinglePagePdfs)
    \/ \E j \in JobIds : get_processing_status(j)
    \/ \E j \in JobIds, k \in (-MaxNeg)..MaxSegs : get_audio_segment(j, k)

Spec == Init /\ [][Next]_vars

\* The jobs: uploads of at most MaxJobs single-page documents and their
\* tasks, interleaving at their await points.  The status and audio
\* requests, which change nothing but the response, are left out.
NextJobs ==
    \/ \E filename \in Filenames : Upload(filename, MaxJobs)
    \/ \E j \in JobIds : UploadFinish(j)
    \/ \E j \in JobIds : TaskStep(j, SinglePagePdfs)

SpecJobs == Init /\ [][NextJobs]_vars

\* The synthesis paths: uploads of at most MaxWatched documents with one
\* paragraph a page, their tasks, and the ad-hoc synthesis requests.
NextSynthesis ==
    \/ \E filename \in Filenames : Upload(filename, MaxWatched)
    \/ \E j \in JobIds : UploadFinish(j)
    \/ \E j \in JobIds : TaskStep(j, PagedPdfs)
    \/ synthesize_text
    \/ \E c \in AdhocCalls : SynthesizeReturn(c)

SpecSynthesis == Init /\ [][NextSynthesis]_vars

\* Fair scheduling: uploads of at most MaxJobs brief documents and their
\* tasks.  The event loop runs every task that is ready (weak fairness on
\* the steps a task takes while it is not suspended in a synthesis call);
\* nothing is assumed of the executor, so a synthesis call may return,
\* raise, or never end.
NextFair ==
    \/ \E filename \in Filenames : Upload(filename, MaxJobs)
    \/ \E j \in JobIds : UploadFinish(j)
    \/ \E j \in JobIds : TaskStep(j, BriefPdfs)

Scheduled(j) == pc[j] # "await" /\ TaskStep(j, BriefPdfs)

SpecFair ==
    Init /\ [][NextFair]_vars /\ \A j \in JobIds : WF_vars(Scheduled(j))

\* =================================================================
\* Properties
\* =================================================================

\* the job's task ran to its end and no step outside a synthesis raised
Succeeded(j) == pc[j] = "done" /\ raised[j] = None

IsSegmentStatus(e, total) ==
    /\ IsStatus(e)
    /\ \E k \in 1..total :
         /\ e.stage = "Generating audio segment " \o ToString(k) \o "/"
                          \o ToString(total) \o "..."
         /\ e.progress = (60 * total + 30 * k) \div total
    /\ e.message = None

\* C1: for every job whose run does not fail, the values written to its
\* registry entry are Uploading(0), ExtractingText(20), AnalyzingContent(40),
\* GeneratingAudio(60), zero or more per-segment GeneratingAudio statuses,
\* Finalizing(100) and last the JobResult, and the progress of consecutive
\* JobStatus writes never decreases.
C1_WriteSequence ==
    \A j \in JobIds :
        Succeeded(j) =>
            LET w == writes[j]
                n == Len(w)
            IN  /\ n >= 6
                /\ w[1] = [stage |-> "Uploading file...", progress |-> 0,
                           message |-> None]
                /\ w[2] = [stage |-> "Extracting text from PDF...",
                           progress |-> 20, message |-> None]
                /\ w[3] = [stage |->
                               "Analyzing content for voice processing...",
                           progress |-> 40, message |-> None]
                /\ w[4] = [stage |-> "Generating AI voice...",
                           progress |-> 60, message |-> None]
                /\ w[n - 1] = [stage |-> "Finalizing...", progress |-> 100,
                               message |-> None]
                /\ IsResult(w[n])
                /\ processing_jobs[j] = w[n]
                /\ \A k \in 5..(n - 2) :
                       IsSegmentStatus(w[k], Len(w[n].segments))
                /\ \A k \in 1..(n - 2) : w[k].progress <= w[k + 1].progress

\* C1 witness: a job completed after writing at least one per-segment status
C1_Witness ==
    \E j \in JobIds : Succeeded(j) /\ Len(writes[j]) >= 7

\* C2 (as claimed): once the attempt on the k-th of n segments has
\* completed, succeeded or failed, the entry carries progress
\* floor(60 + 30*k/n).
C2_ProgressCountsAttempts ==
    \A j \in JobIds :
        (pc[j] = "loop" /\ idx[j] >= 1) =>
            processing_jobs[j].progress =
                (60 * Len(processed_segments[j]) + 30 * idx[j])
                    \div Len(processed_segments[j])

\* the output files of the segments 0..n-1 of job j, in segment order
AllOutputs(j, n) == [k \in 1..n |-> OutputFile(j, k - 1)]

SucceededOutputs(j, n) ==
    LET Kept(f) == f \notin {OutputFile(j, i) : i \in failed[j]}
    IN  SelectSeq(AllOutputs(j, n), Kept)

\* C3: for a job with n segments of which the set F fails in synthesis, the
\* final audio list is exactly the outputs of the segments not in F, in
\* increasing segment order and without placeholders, and the terminal entry
\* is a JobResult with status "completed".
C3_PartialSuccess ==
    \A j \in JobIds :
        Succeeded(j) =>
            /\ IsResult(processing_jobs[j])
            /\ processing_jobs[j].status = "completed"
            /\ LET n == Len(extracted[j][1])
               IN  /\ failed[j] \subseteq 0..(n - 1)
                   /\ audio_files[j] = SucceededOutputs(j, n)
                   /\ Len(audio_files[j]) = n - Cardinality(failed[j])

\* C3 witness: a completed job whose first segment failed and whose second
\* segment succeeded
C3_Witness ==
    \E j \in JobIds :
        /\ Succeeded(j)
        /\ failed[j] = {0}
        /\ audio_files[j] = <<OutputFile(j, 1)>>

\* C4: if a step other than a per-segment synthesis raises, the entry is
\* overwritten with a JobStatus of progress 0 whose message is the error
\* text and whose stage embeds it, and the job never has a JobResult.
C4_FailureIsRecorded ==
    \A j \in JobIds :
        raised[j] # None =>
            /\ pc[j] \in {"except", "done"}
            /\ \A k \in 1..Len(writes[j]) : ~IsResult(writes[j][k])
            /\ pc[j] = "done" =>
                   processing_jobs[j] =
                       [stage |-> "Error: " \o ErrorText(raised[j]),
                        progress |-> 0,
                        message |-> ErrorText(raised[j])]

\* C4 witness: the construction of the result raised, after Finalizing(100)
\* was written, and the handler has run
C4_Witness ==
    \E j \in JobIds :
        /\ raised[j] = "result"
        /\ pc[j] = "done"
        /\ Len(writes[j]) >= 2
        /\ writes[j][Len(writes[j]) - 1].progress = 100

\* a JobResult, or a Failed JobStatus (progress 0 with an error message)
Terminal(e) ==
    \/ IsResult(e)
    \/ IsStatus(e) /\ e.progress = 0 /\ e.message # None

\* the value of d at k as a sequence of length 0 (no entry) or 1
At(d, k) == IF k \in DOMAIN d THEN <<d[k]>> ELSE <<>>

\* C5: once a job's entry is a JobResult or a Failed JobStatus, no step
\* changes that entry or the job's audio list.
C5_TerminalPermanent ==
    [][\A j \in JobIds :
          (j \in DOMAIN processing_jobs /\ Terminal(processing_jobs[j])) =>
              /\ At(processing_jobs', j) = At(processing_jobs, j)
              /\ At(audio_files', j) = At(audio_files, j)]_vars

\* C5 witness: one job has ended with a JobResult and a non-empty audio
\* list, and another job has run after it and ended Failed
C5_Witness ==
    \E j, k \in JobIds :
        /\ j \in DOMAIN processing_jobs
        /\ IsResult(processing_jobs[j])
        /\ audio_files[j] # <<>>
        /\ k \in DOMAIN processing_jobs
        /\ IsStatus(processing_jobs[k])
        /\ Terminal(processing_jobs[k])
        /\ pc[j] = "done" /\ pc[k] = "done"

\* C6: a poll returns not-found iff no accepted upload has registered the
\* identifier; from the acceptance on (the identifier is registered with
\* Uploading(0) before the handler returns and before the task runs) a
\* poll returns the current entry, and entries are never deleted.
C6_PollFindsAccepted ==
    /\ accepted \subseteq DOMAIN processing_jobs
    /\ \A j \in accepted :
           pc[j] \in {"reading", "queued", "abandoned"} =>
               processing_jobs[j] = [stage |-> "Uploading file...",
                                     progress |-> 0, message |-> None]
    /\ response.op = "status" =>
           /\ (response.code = 404) <=> (response.job_id \notin accepted)
           /\ response.job_id \in accepted =>
                  /\ response.code = 200
                  /\ response.body = processing_jobs[response.job_id]

\* C6 witness: a poll is answered with the entry while the upload handler
\* of that job has not returned yet
C6_Witness ==
    /\ response.op = "status"
    /\ response.code = 200
    /\ pc[response.job_id] = "reading"

\* C7 (as claimed): a fetch returns not-found whenever the job has no audio
\* list or the position is outside 0 .. len - 1, negative positions
\* included, and otherwise returns the file at that position.
C7_FetchOutOfRange ==
    response.op = "audio" =>
        LET j == response.job_id
            k == response.segment_index
        IN  IF \/ j \notin DOMAIN audio_files
               \/ k < 0
               \/ k >= Len(audio_files[j])
            THEN response.code = 404
            ELSE /\ response.code = 200
                 /\ response.file = audio_files[j][k + 1]

\* C8: a job whose document yields zero raw segments runs through every
\* phase without a synthesis attempt and without the progress division, and
\* ends as a JobResult "completed" with an empty segment list, total_pages 0
\* and an existing, empty audio list.
C8_ZeroSegments ==
    \A j \in JobIds :
        (extracted[j] = << <<>> >> /\ raised[j] = None) =>
            /\ pc[j] \in {"analyzing", "process", "generating", "mkdtemp",
                          "loop", "finalizing", "result", "done"}
            /\ attempts[j] = <<>>
            /\ failed[j] = {}
            /\ pc[j] = "done" =>
                   /\ processing_jobs[j] =
                          [job_id |-> j, segments |-> <<>>,
                           total_pages |-> 0, status |-> "completed"]
                   /\ j \in DOMAIN audio_files
                   /\ audio_files[j] = <<>>
                   /\ Len(writes[j]) = 6
                   /\ writes[j][5].progress = 100

\* C8 witness: a job with zero raw segments has completed
C8_Witness ==
    \E j \in JobIds :
        /\ extracted[j] = << <<>> >>
        /\ raised[j] = None
        /\ pc[j] = "done"

\* C9: within one job the synthesis attempts are issued in increasing
\* segment order and at most one call is in flight: the call in flight is
\* the last one issued and the task is suspended on it.
C9_SequentialSynthesis ==
    \A j \in JobIds :
        /\ Cardinality({c \in inflight : c.job = j}) <= 1
        /\ attempts[j] = [k \in 1..Len(attempts[j]) |-> k - 1]
        /\ \A c \in inflight :
               c.job = j =>
                   /\ pc[j] = "await"
                   /\ c.index = attempts[j][Len(attempts[j])]

\* C9 witness: two jobs have a call in flight at once, one of them for its
\* second segment
C9_Witness ==
    \E c, d \in inflight :
        /\ c.job # d.job
        /\ c.index = 1

\* C10: every write to the entry or the audio list of job j other than the
\* registration at upload is a step of the task of j, and a step of the
\* task of j leaves the entry and the audio list of every other job
\* unchanged.
C10_SingleWriter ==
    [][\A j \in JobIds :
          /\ (\/ At(processing_jobs', j) # At(processing_jobs, j)
              \/ At(audio_files', j) # At(audio_files, j))
                 => \/ /\ j \notin DOMAIN processing_jobs
                       /\ processing_jobs'[j].progress = 0
                       /\ At(audio_files', j) = At(audio_files, j)
                    \/ TaskStep(j, SinglePagePdfs)
          /\ TaskStep(j, SinglePagePdfs) =>
                 \A k \in JobIds \ {j} :
                     /\ At(processing_jobs', k) = At(processing_jobs, k)
                     /\ At(audio_files', k) = At(audio_files, k)]_vars

\* C10 witness: a job is suspended in a synthesis call with
\* a segment failure behind it, and the other job has failed
C10_Witness ==
    \E j, k \in JobIds :
        /\ j # k
        /\ pc[j] = "await"
        /\ failed[j] # {}
        /\ pc[k] = "done"
        /\ raised[k] # None

\* the file name ends in the four characters ".pdf"
HasPdfExtension(f) ==
    /\ Len(f) >= 4
    /\ f[Len(f) - 3] = "."
    /\ f[Len(f) - 2] = "p"
    /\ f[Len(f) - 1] = "d"
    /\ f[Len(f)] = "f"

\* C11: an upload whose file name does not end in ".pdf" is answered with
\* a client error and records nothing: no identifier is minted, both
\* registries are unchanged and no task is queued.
C11_RejectedUploadRecordsNothing ==
    [][\A filename \in Filenames :
          (~HasPdfExtension(filename) /\ Upload(filename, MaxJobs)) =>
              /\ response' = [op |-> "upload", code |-> 400]
              /\ processing_jobs' = processing_jobs
              /\ audio_files' = audio_files
              /\ pc' = pc
              /\ accepted' = accepted
              /\ Used' = Used]_vars

\* C11 witness: an upload has just been rejected while the registry holds
\* the entry of an earlier, accepted upload
C11_Witness ==
    /\ response = [op |-> "upload", code |-> 400]
    /\ accepted # {}
    /\ DOMAIN processing_jobs = accepted

\* C12: without a speech model every synthesis request fails at once and
\* the TTS collaborator is never invoked, ad hoc or in a job; every
\* per-segment attempt of a job fails and is skipped, its audio list stays
\* empty and the job still ends as a JobResult "completed".
C12_ModelUnavailable ==
    ~tts_model =>
        /\ inflight = {}
        /\ disk = {}
        /\ response.op = "synthesize" =>
               /\ response.code = 500
               /\ response.detail = "TTS model not available"
        /\ \A j \in JobIds :
               /\ pc[j] \notin {"await", "append", "progress"}
               /\ failed[j] = {attempts[j][k] : k \in 1..Len(attempts[j])}
               /\ j \in DOMAIN audio_files => audio_files[j] = <<>>
               /\ Succeeded(j) =>
                      /\ IsResult(processing_jobs[j])
                      /\ processing_jobs[j].status = "completed"
                      /\ failed[j] =
                             0..(Len(processing_jobs[j].segments) - 1)
                      /\ Len(writes[j]) = 6

\* C12 witness: with no model, a job of two segments has completed with an
\* empty audio list and an ad-hoc request has just been refused
C12_Witness ==
    /\ ~tts_model
    /\ response.op = "synthesize"
    /\ \E j \in JobIds :
           /\ Succeeded(j)
           /\ Len(attempts[j]) = 2
           /\ audio_files[j] = <<>>

\* the texts of the segments extracted from page page_num
SegmentTextsOf(segs, page_num) ==
    {segs[k].text : k \in {i \in 1..Len(segs) : segs[i].page = page_num}}

\* C13: a trimmed paragraph of exactly 50 characters is discarded and one of
\* exactly 51 characters is kept; a page whose text is empty or only
\* whitespace contributes no segment.
C13_LengthBoundary ==
    response.op = "extract_text_from_pdf" =>
        \A n \in 1..Len(response.pages) :
            LET text == response.pages[n]
                kept == SegmentTextsOf(response.segments, n)
                pars == Paragraphs(text)
            IN  /\ (\A i \in 1..Len(text) : Char(text, i) \in Whitespace)
                       => kept = {}
                /\ \A k \in 1..Len(pars) :
                       /\ Len(pars[k]) = LengthFloor => pars[k] \notin kept
                       /\ Len(pars[k]) = LengthFloor + 1 => pars[k] \in kept

\* C13 witness: a page with a paragraph of 50 characters in front of one of
\* 51, after a page of whitespace, has yielded the single later paragraph
C13_Witness ==
    /\ response.op = "extract_text_from_pdf"
    /\ response.pages = << "\n\n",
                           Run("x", LengthFloor) \o "\n\n" \o Run("x", LengthFloor + 1) >>
    /\ response.segments =
           << [text |-> Run("x", LengthFloor + 1), page |-> 2, total_pages |-> 2] >>

\* the occurrences <<k, p>> of pattern k at position p of text
Hits(text) ==
    {h \in (1..Len(figure_patterns)) \X (1..Len(text)) :
        MatchEnd(figure_patterns[h[1]], text, h[2]) > 0}

\* pattern-major: by pattern first, by position among one pattern's matches
Before(g, h) == g[1] < h[1] \/ (g[1] = h[1] /\ g[2] < h[2])

\* C14: the detector lists the matches pattern by pattern in the order of
\* the nine patterns, and by position within one pattern;
\* has_figure_reference is true iff the list is non-empty, and a text
\* without a match yields false and the empty list.
C14_PatternMajorOrder ==
    response.op = "detect_figure_references" =>
        LET text == response.text
            refs == response.ref_info.figure_references
            hits == Hits(text)
        IN  /\ Len(refs) = Cardinality(hits)
            /\ \A h \in hits :
                   refs[1 + Cardinality({g \in hits : Before(g, h)})]
                       = SubSeq(text, h[2],
                                MatchEnd(figure_patterns[h[1]], text, h[2]))
            /\ response.ref_info.has_figure_reference <=> (refs # <<>>)
            /\ hits = {} =>
                   response.ref_info = [has_figure_reference |-> FALSE,
                                        figure_references |-> <<>>]

\* C14 witness: a Table match in front of a Figure match is listed after it
C14_Witness ==
    /\ response.op = "detect_figure_references"
    /\ response.text = "Table 1 figure 2"
    /\ response.ref_info = [has_figure_reference |-> TRUE,
                            figure_references |-> <<"figure 2", "Table 1">>]

WhitespaceCount(s) ==
    Cardinality({i \in 1..Len(s) : Char(s, i) \in Whitespace})

\* no whitespace at either end and no two whitespace characters in a row
Tidy(s) ==
    /\ s # "" => /\ Char(s, 1) \notin Whitespace
                 /\ Char(s, Len(s)) \notin Whitespace
    /\ \A i \in 1..(Len(s) - 1) :
           ~(Char(s, i) \in Whitespace /\ Char(s, i + 1) \in Whitespace)

CleanOutputTidy ==
    response.op = "clean_text_for_tts" => Tidy(response.text)

\* C15: the output of the cleaner has no whitespace at its ends and no run
\* of two or more whitespace characters, and cleaning a cleaned text neither
\* inserts nor removes whitespace.
C15_CleanTwiceSameWhitespace ==
    [][response'.op = "clean_text_for_tts" =>
          /\ Tidy(response'.text)
          /\ response.op = "clean_text_for_tts" =>
                 WhitespaceCount(response'.text)
                     = WhitespaceCount(response.text)]_vars

\* C16: the segment list of a completed job's JobResult has the length and
\* the order of the raw segments (position i carries the page of raw segment
\* i) whichever syntheses failed; the audio list is no longer than it, and
\* its position k holds the file of a segment of index m >= k, with m = k
\* exactly when no segment before m failed (k, m zero-based).
C16_ResultKeepsAllSegments ==
    \A j \in JobIds :
        Succeeded(j) =>
            LET raw    == extracted[j][1]
                result == processing_jobs[j].segments
                audio  == audio_files[j]
            IN  /\ Len(result) = Len(raw)
                /\ \A i \in 1..Len(raw) : result[i].page = raw[i].page
                /\ Len(audio) <= Len(result)
                /\ (Len(audio) < Len(result)) <=> (failed[j] # {})
                /\ \A k \in 0..(Len(audio) - 1) :
                       \E m \in k..(Len(raw) - 1) :
                           /\ audio[k + 1] = OutputFile(j, m)
                           /\ (m = k) <=> (failed[j] \cap 0..(m - 1) = {})

\* C16 witness: a completed job of two segments, the second on page 3, whose
\* first synthesis failed: the audio list holds the file of segment 1 alone
C16_Witness ==
    \E j \in JobIds :
        /\ Succeeded(j)
        /\ processing_jobs[j].segments = <<TextSegment(1), TextSegment(3)>>
        /\ failed[j] = {0}
        /\ audio_files[j] = <<OutputFile(j, 1)>>

\* the positions at which a task does not hold the event loop
Yielded == {"unused", "reading", "abandoned", "queued", "await", "done"}

\* C17: a status poll runs only while no orchestration task is between two
\* yield points (each task has not started, awaits a synthesis call, or has
\* ended), and it never returns ExtractingText(20), AnalyzingContent(40) or
\* Finalizing(100).
C17_PollNeverSeesTransientStages ==
    [][\A job_id \in JobIds :
          get_processing_status(job_id) =>
              /\ \A j \in JobIds : pc[j] \in Yielded
              /\ response'.code = 200 =>
                     response'.body \notin
                         {StatusExtracting, StatusAnalyzing, StatusFinalizing}]_vars

\* C17 witness: a poll has returned the stage 3 status of a job suspended in
\* its first synthesis call, after the stage 1 and 2 statuses were written
C17_Witness ==
    /\ response.op = "status"
    /\ response.code = 200
    /\ response.body = StatusGenerating
    /\ pc[response.job_id] = "await"
    /\ writes[response.job_id] =
           <<StatusUploading, StatusExtracting, StatusAnalyzing,
             StatusGenerating>>

\* the positions of the per-segment loop
InGeneratingAudio ==
    {"mkdtemp", "loop", "call", "await", "append", "progress", "skip"}

\* C18: in a job without a failed synthesis, whenever a poll or a fetch can
\* run while the job is in GeneratingAudio, its progress is
\* floor(60 + 30 * L / n), L the length of its audio list and n its number
\* of segments.
C18_RegistriesInStep ==
    \A j \in JobIds :
        (running = 0 /\ pc[j] \in InGeneratingAudio /\ failed[j] = {}) =>
            LET L == Len(audio_files[j])
                n == Len(processed_segments[j])
            IN  /\ n >= 1
                /\ IsStatus(processing_jobs[j])
                /\ processing_jobs[j].progress =
                       (ProgressGenerate * n + ProgressSpan * L) \div n

\* C18 witness: a poll answered while the job awaits its second synthesis
\* call shows the progress of one file out of two
C18_Witness ==
    \E j \in JobIds :
        /\ running = 0
        /\ pc[j] = "await"
        /\ failed[j] = {}
        /\ Len(audio_files[j]) = 1
        /\ Len(processed_segments[j]) = 2
        /\ response = [op |-> "status", job_id |-> j, code |-> 200,
                       body |-> StatusSegment(0, 2)]

HasTerminalEntry(j) ==
    j \in DOMAIN processing_jobs /\ Terminal(processing_jobs[j])

\* C19: under fair scheduling of its task, every job whose upload handler
\* has returned the job identifier eventually has a terminal entry
\* (JobResult or Failed), provided each of its own synthesis calls returns
\* or raises; nothing is required of the calls of the other jobs, so a call
\* of another job that never returns does not hold the job back.
C19_AcceptedJobsTerminate ==
    \A j \in JobIds :
        (pc[j] = "await" ~> pc[j] # "await") =>
            (pc[j] = "queued" ~> HasTerminalEntry(j))

\* C19 witness: a job has its JobResult after a synthesis of its own while
\* the first synthesis call of another job has not returned
C19_Witness ==
    \E j, k \in JobIds :
        /\ j # k
        /\ pc[k] = "await"
        /\ attempts[k] = <<0>>
        /\ Succeeded(j)
        /\ attempts[j] = <<0>>
        /\ IsResult(processing_jobs[j])

====
